---- MODULE Spec2Model ----
(***************************************************************************)
(* A model of the content-addressed file store of src/src/lib.rs:          *)
(* store_data / store_file / retrieve_data / retrieve_file / delete over a *)
(* directory tree holding one content file and one refcount file per key.  *)
(*                                                                         *)
(* Every filesystem call of the code is one atomic step of the calling     *)
(* process; the code takes no lock, so the steps of two calls interleave.  *)
(* A file is a directory entry naming an inode; an open handle keeps its   *)
(* inode after the entry is removed (POSIX unlink).                        *)
(***************************************************************************)
EXTENDS Integers, Sequences, FiniteSets, TLC

\* ------------------------------------------------------------------ bounds

\* Calls begun in one behaviour.
MaxCalls == 4

\* Filesystem calls that the environment makes fail in one behaviour.
MaxFaults == 1

\* Calls begun in one behaviour that starts from a store already holding a key.
MaxSeededCalls == 3

\* ------------------------------------------------------- program constants

\* The read buffer of the streaming hash (lib.rs:69).
BufSize == 4096

\* A refcount is a u32 (lib.rs:179). It is held as two 16-bit halves <<high, low>>,
\* so that the whole range 0 .. 2^32 - 1 is within the integers of the checker.
Half == 2 ^ 16

\* ------------------------------------------------------------ environment

\* The concurrent callers of the library. Callers are interchangeable: a call
\* that begins while no other runs is p1's, one that begins meanwhile is p2's.
Procs == {"p1", "p2"}

\* The byte buffers callers store.
Contents == {<<7>>, <<8>>}

\* The caller's source files for store_file: path -> bytes; "gone" names no file.
SrcPaths == {"a.bin", "b.bin", "gone"}

SrcExists(path) == path # "gone"

SrcBytes(path) ==
    CASE path = "a.bin" -> <<7>>
      [] path = "b.bin" -> <<7>>
      [] OTHER -> <<>>

\* The storage root handed to every call (storage_path).
Root == <<"root">>

\* ------------------------------------------------------------------ hashing

HexDigits == <<"0", "1", "2", "3", "4", "5", "6", "7",
               "8", "9", "a", "b", "c", "d", "e", "f">>

\* Two lowercase hex characters of one byte.
HexByte(b) == <<HexDigits[(b \div 16) + 1], HexDigits[(b % 16) + 1]>>

RECURSIVE HexStr(_)
HexStr(bytes) ==
    IF bytes = <<>> THEN <<>> ELSE HexByte(Head(bytes)) \o HexStr(Tail(bytes))

\* Sha224::result_str of the bytes fed to the hasher: a lowercase hex string.
\* The digest itself is the crypto crate's; it is modelled as a collision-free
\* function of the bytes fed (their length, then the bytes, in hex).
Sha224Hex(fed) == HexByte(Len(fed)) \o HexStr(fed)

\* impl Hashable for Vec<u8>: one hash.input of the whole buffer.
HashData(bytes) == Sha224Hex(bytes)

\* The read loop of impl Hashable for PathBuf: feed at most BufSize bytes per
\* read until a read returns 0 bytes.
RECURSIVE HashLoop(_, _)
HashLoop(fed, rest) ==
    LET count == IF Len(rest) < BufSize THEN Len(rest) ELSE BufSize
    IN  IF count = 0 THEN Sha224Hex(fed)
        ELSE HashLoop(fed \o SubSeq(rest, 1, count),
                      SubSeq(rest, count + 1, Len(rest)))

\* Mutant of HashFile: the name of the source file goes into the hash.
HashFileNamed(path) ==
    HashLoop(IF path = "b.bin" THEN <<1>> ELSE <<>>, SrcBytes(path))

\* impl Hashable for PathBuf, the source file opened and readable.
HashFile(path) == HashLoop(<<>>, SrcBytes(path))

\* ---------------------------------------------------------- path derivation

\* storage_file_dir: storage_path.join(&key[..2])
storage_file_dir(storage_path, key) == Append(storage_path, SubSeq(key, 1, 2))

\* Mutant of storage_file_name: the last character of the key is cut off.
storage_file_name_cut(key) == SubSeq(key, 3, Len(key) - 1)

\* storage_file_name: key[2..]
storage_file_name(key) == SubSeq(key, 3, Len(key))

\* storage_file_path: dir.join(name)
storage_file_path(storage_path, key) ==
    Append(storage_file_dir(storage_path, key), storage_file_name(key))

\* Mutant of storage_refcount_name: the suffix is left out.
storage_refcount_name_bare(key) == SubSeq(key, 3, Len(key))

\* storage_refcount_name: key[2..] + ".refcount"
storage_refcount_name(key) ==
    SubSeq(key, 3, Len(key)) \o <<".", "r", "e", "f", "c", "o", "u", "n", "t">>

\* storage_refcount_path: dir.join(refcount name)
storage_refcount_path(storage_path, key) ==
    Append(storage_file_dir(storage_path, key), storage_refcount_name(key))

\* ------------------------------------------------------- refcount records

\* The u32 of a number below 2^31.
U32(n) == <<n \div Half, n % Half>>

\* The number of a u32 below 2^31.
Num(c) == c[1] * Half + c[2]

\* The largest u32.
MaxU32 == <<Half - 1, Half - 1>>

\* Mutant of IsZero: the test `refcount < 1` never holds.
IsZeroNever(c) == FALSE

\* refcount < 1
IsZero(c) == c = <<0, 0>>

\* Mutant of U32ToBE: the bytes are written least significant first.
U32ToLE(c) == <<c[2] % 256, c[2] \div 256, c[1] % 256, c[1] \div 256>>

\* write_u32::<BigEndian>: the 4 bytes of the record, most significant first
U32ToBE(c) == <<c[1] \div 256, c[1] % 256, c[2] \div 256, c[2] % 256>>

\* read_u32::<BigEndian> of a record of at least 4 bytes
BEToU32(b) == <<b[1] * 256 + b[2], b[3] * 256 + b[4]>>

\* get_refcount's match on read_u32: a record that ends early reads as 0.
ReadRefcount(bytes) == IF Len(bytes) < 4 THEN U32(0) ELSE BEToU32(bytes)

\* Mutant of Incremented: the count goes up by two.
IncrementedTwice(c) == <<c[1], c[2] + 2>>

\* Mutant of Incremented: the count read is dropped and 1 is persisted.
IncrementedLost(c) == <<0, 1>>

\* store: refcount = refcount + 1 (u32, wrapping in a release build)
Incremented(c) ==
    IF c[2] + 1 < Half THEN <<c[1], c[2] + 1>> ELSE <<(c[1] + 1) % Half, 0>>

\* Mutant of Decremented: the decrement is left out.
DecrementedNot(c) == c

\* delete: refcount = refcount - 1, reached only with refcount >= 1
Decremented(c) ==
    IF c[2] > 0 THEN <<c[1], c[2] - 1>> ELSE <<c[1] - 1, Half - 1>>

\* ------------------------------------------------------------ the universe

\* The keys callers can hold: the hashes of the contents.
Keys == {HashData(c) : c \in Contents}

NoKey == <<>>

ContentPaths == {storage_file_path(Root, k) : k \in Keys}

RefcountPaths == {storage_refcount_path(Root, k) : k \in Keys}

AllPaths == ContentPaths \cup RefcountPaths

\* Inodes: one per path and one per open handle suffice.
Inos == 1 .. (Cardinality(AllPaths) + Cardinality(Procs))

\* The calls of the public interface.
Call(kind, data, path, k) == [kind |-> kind, data |-> data, path |-> path, key |-> k]

Calls ==
    {Call("store_data", c, "", NoKey) : c \in Contents}
    \cup {Call("store_file", <<>>, s, NoKey) : s \in SrcPaths}
    \cup {Call("retrieve_data", <<>>, "", k) : k \in Keys}
    \cup {Call("retrieve_file", <<>>, "", k) : k \in Keys}
    \cup {Call("delete", <<>>, "", k) : k \in Keys}

NoCall == Call("none", <<>>, "", NoKey)

\* What a call returned: out is "ok" (Ok), "err" (Err), "some" or "none" (Option).
Result(call, out, k, data, path) ==
    [call |-> call, out |-> out, key |-> k, data |-> data, path |-> path]

NoRes == Result(NoCall, "pending", NoKey, <<>>, <<>>)

IsStore(call) == call.kind \in {"store_data", "store_file"}

\* Mutant of Input: a single write that stops one byte short of the buffer.
InputShortWrite(call) ==
    LET bytes == IF call.kind = "store_data" THEN call.data ELSE SrcBytes(call.path)
    IN  SubSeq(bytes, 1, Len(bytes) - 1)

\* The bytes a store call persists.
Input(call) == IF call.kind = "store_data" THEN call.data ELSE SrcBytes(call.path)

VARIABLES
    dirs,     \* the shard directories that exist
    dirent,   \* path -> inode, 0 when no file is at the path
    inode,    \* inode -> bytes
    fh,       \* process -> the inode of its open file, 0 when none
    pc,       \* process -> its position in its call
    op,       \* process -> the call it runs
    key,      \* process -> the key of its call
    rcnt,     \* process -> the local variable refcount
    res,      \* process -> what its last call returned
    calls,    \* calls begun
    nfaults,  \* filesystem calls failed by the environment
    raced,    \* some call began while another was running
    refs,     \* key -> references by the completed calls: +1 per store, -1 per delete, floor 0
    stores,   \* key -> store calls that returned the key
    dels,     \* key -> delete calls begun
    seed      \* the refcount record the store held for SeedKey at the start

vars == <<dirs, dirent, inode, fh, pc, op, key, rcnt, res, calls, nfaults,
          raced, refs, stores, dels, seed>>

\* -------------------------------------------------------------- filesystem

Exists(path) == dirent[path] # 0

BytesAt(path) == inode[dirent[path]]

\* Inodes no entry and no handle names are freed.
Gc(d, f, i) ==
    [n \in Inos |->
        IF (\E q \in AllPaths : d[q] = n) \/ (\E p \in Procs : f[p] = n)
        THEN i[n] ELSE <<>>]

FreeIno ==
    CHOOSE n \in Inos :
        /\ \A q \in AllPaths : dirent[q] # n
        /\ \A p \in Procs : fh[p] # n
        /\ \A m \in Inos :
             ((\A q \in AllPaths : dirent[q] # m) /\ (\A p \in Procs : fh[p] # m))
                => n <= m

\* A write at offset 0 of a handle: the bytes replace the start of the file.
WriteAt0(old, new) == new \o SubSeq(old, Len(new) + 1, Len(old))

\* The filesystem after a step: entries d, handles f, inode contents i.
Fs(d, f, i) ==
    /\ dirent' = d
    /\ fh' = f
    /\ inode' = Gc(d, f, i)

FsSame == UNCHANGED <<dirent, inode, fh>>

\* OpenOptions::new().create(true).write(true).truncate(true).open(path) by p
OpenTruncate(p, path) ==
    IF Exists(path)
    THEN Fs(dirent, [fh EXCEPT ![p] = dirent[path]],
            [inode EXCEPT ![dirent[path]] = <<>>])
    ELSE Fs([dirent EXCEPT ![path] = FreeIno], [fh EXCEPT ![p] = FreeIno],
            [inode EXCEPT ![FreeIno] = <<>>])

\* A write of the first n bytes of `bytes` through p's handle, which is then closed.
WriteClose(p, bytes, n) ==
    Fs(dirent, [fh EXCEPT ![p] = 0],
       [inode EXCEPT ![fh[p]] = WriteAt0(@, SubSeq(bytes, 1, n))])

\* fs::remove_file(path) of an existing file
Unlink(path) == Fs([dirent EXCEPT ![path] = 0], fh, inode)

\* p's handle is dropped.
CloseOnly(p) == Fs(dirent, [fh EXCEPT ![p] = 0], inode)

\* No other call is running.
Alone(p) == \A q \in Procs \ {p} : pc[q] = "idle"

\* The environment fails one more filesystem call. Failures are explored in the
\* behaviours whose calls run one at a time; the behaviours whose calls overlap
\* are explored on a filesystem that fails no call for a reason of its own.
CanFault(p) == nfaults < MaxFaults /\ ~raced /\ Alone(p)

Faulted == nfaults' = nfaults + 1

NoFault == nfaults' = nfaults

\* ------------------------------------------------------------------- ghost

Max0(n) == IF n < 0 THEN 0 ELSE n

\* The reference ledger of the completed calls.
Account(call, out, k) ==
    IF IsStore(call) /\ out = "ok"
    THEN /\ refs' = [refs EXCEPT ![k] = @ + 1]
         /\ stores' = [stores EXCEPT ![k] = @ + 1]
    ELSE IF call.kind = "delete" /\ out = "ok"
    THEN /\ refs' = [refs EXCEPT ![k] = Max0(@ - 1)]
         /\ UNCHANGED stores
    ELSE UNCHANGED <<refs, stores>>

\* p's call returns `out`; the filesystem is the step's to state.
Return(p, out, k, data, path) ==
    /\ pc' = [pc EXCEPT ![p] = "idle"]
    /\ res' = [res EXCEPT ![p] = Result(op[p], out, k, data, path)]
    /\ op' = [op EXCEPT ![p] = NoCall]
    /\ key' = [key EXCEPT ![p] = NoKey]
    /\ rcnt' = [rcnt EXCEPT ![p] = U32(0)]
    /\ Account(op[p], out, IF IsStore(op[p]) THEN k ELSE op[p].key)
    /\ UNCHANGED <<calls, raced, dels, seed>>

\* p's call goes on at `label` with key k and local refcount c.
Goto(p, label, k, c) ==
    /\ pc' = [pc EXCEPT ![p] = label]
    /\ key' = [key EXCEPT ![p] = k]
    /\ rcnt' = [rcnt EXCEPT ![p] = c]
    /\ UNCHANGED <<op, res, refs, stores, calls, raced, dels, seed>>

\* try!(...) on an Err: store and delete return the error at once.
Fail(p) == Return(p, "err", NoKey, <<>>, <<>>)

\* Mutant of NotFound: a missing key is reported as an error.
NotFoundAsErr(p) == Return(p, "err", NoKey, <<>>, <<>>)

\* Err(_) => None in retrieve_data and retrieve_file.
NotFound(p) == Return(p, "none", NoKey, <<>>, <<>>)

\* --------------------------------------------------------------------- Init

\* A store directory that was never in use has no record to start with.
NoSeed == <<>>

Init ==
    /\ dirs = {}
    /\ dirent = [q \in AllPaths |-> 0]
    /\ inode = [n \in Inos |-> <<>>]
    /\ fh = [p \in Procs |-> 0]
    /\ pc = [p \in Procs |-> "idle"]
    /\ op = [p \in Procs |-> NoCall]
    /\ key = [p \in Procs |-> NoKey]
    /\ rcnt = [p \in Procs |-> U32(0)]
    /\ res = [p \in Procs |-> NoRes]
    /\ calls = 0
    /\ nfaults = 0
    /\ raced = FALSE
    /\ refs = [k \in Keys |-> 0]
    /\ stores = [k \in Keys |-> 0]
    /\ dels = [k \in Keys |-> 0]
    /\ seed = NoSeed

\* The key a store directory that is already in use holds: its content file
\* and its refcount record, as the stores of earlier runs left them.
SeedKey == HashData(<<7>>)

\* The refcounts such a directory starts with.
SeedCounts == {U32(0), U32(1), U32(2), Decremented(MaxU32), MaxU32}

\* A store directory in use: SeedKey was stored before. At a refcount of 1 or
\* more its content file holds its bytes and its refcount file the record that
\* set_refcount wrote last; at 0 the last delete has removed both.
InitSeeded ==
    /\ seed \in SeedCounts
    /\ dirs = {storage_file_dir(Root, SeedKey)}
    /\ dirent = [q \in AllPaths |->
                   IF IsZero(seed) THEN 0
                   ELSE IF q = storage_file_path(Root, SeedKey) THEN 1
                   ELSE IF q = storage_refcount_path(Root, SeedKey) THEN 2
                   ELSE 0]
    /\ inode = [n \in Inos |->
                  IF IsZero(seed) THEN <<>>
                  ELSE IF n = 1 THEN <<7>>
                  ELSE IF n = 2 THEN U32ToBE(seed)
                  ELSE <<>>]
    /\ fh = [p \in Procs |-> 0]
    /\ pc = [p \in Procs |-> "idle"]
    /\ op = [p \in Procs |-> NoCall]
    /\ key = [p \in Procs |-> NoKey]
    /\ rcnt = [p \in Procs |-> U32(0)]
    /\ res = [p \in Procs |-> NoRes]
    /\ calls = 0
    /\ nfaults = 0
    /\ raced = FALSE
    /\ refs = [k \in Keys |-> 0]
    /\ stores = [k \in Keys |-> 0]
    /\ dels = [k \in Keys |-> 0]

\* The calls one behaviour may begin.
CallBound == IF seed = NoSeed THEN MaxCalls ELSE MaxSeededCalls

\* ------------------------------------------------------------ the calls

\* A caller begins one call of the public interface.
Begin(p) ==
    \E c \in Calls :
        /\ pc[p] = "idle"
        /\ calls < CallBound
        /\ Alone(p) \/ nfaults = 0
        /\ p = "p2" => ~Alone(p)
        /\ calls' = calls + 1
        /\ op' = [op EXCEPT ![p] = c]
        /\ key' = [key EXCEPT ![p] = c.key]
        /\ pc' = [pc EXCEPT ![p] =
                    IF IsStore(c) THEN "hash"
                    ELSE IF c.kind = "delete" THEN "g_meta" ELSE "t_probe"]
        /\ res' = [res EXCEPT ![p] = NoRes]
        /\ raced' = (raced \/ \E q \in Procs \ {p} : pc[q] # "idle")
        /\ dels' = IF c.kind = "delete" THEN [dels EXCEPT ![c.key] = @ + 1] ELSE dels
        /\ UNCHANGED <<dirs, dirent, inode, fh, rcnt, nfaults, refs, stores, seed>>

\* store: let key = FileKey(try!(input.hash()))
Hash(p) ==
    /\ pc[p] = "hash"
    /\ UNCHANGED dirs
    /\ FsSame
    /\ \/ /\ op[p].kind = "store_data"
          /\ NoFault
          /\ Goto(p, "mkdir", HashData(op[p].data), U32(0))
       \/ /\ op[p].kind = "store_file"
          /\ SrcExists(op[p].path)
          /\ NoFault
          /\ Goto(p, "mkdir", HashFile(op[p].path), U32(0))
       \/ /\ op[p].kind = "store_file"
          /\ ~SrcExists(op[p].path)
          /\ NoFault
          /\ Fail(p)
       \/ /\ op[p].kind = "store_file"
          /\ CanFault(p)
          /\ Faulted
          /\ Fail(p)

\* Mutant of MkDir: every error of create_dir is tolerated, not only AlreadyExists.
MkDirToleratesAll(p) ==
    LET dir == storage_file_dir(Root, key[p])
    IN  /\ pc[p] = "mkdir"
        /\ FsSame
        /\ \/ /\ dirs' = dirs \cup {dir}
              /\ NoFault
              /\ Goto(p, "probe", key[p], U32(0))
           \/ /\ CanFault(p)
              /\ Faulted
              /\ UNCHANGED dirs
              /\ Goto(p, "probe", key[p], U32(0))

\* store: fs::create_dir(&storage_file_dir), AlreadyExists tolerated
MkDir(p) ==
    LET dir == storage_file_dir(Root, key[p])
    IN  /\ pc[p] = "mkdir"
        /\ FsSame
        /\ \/ /\ dir \notin dirs
              /\ dirs' = dirs \cup {dir}
              /\ NoFault
              /\ Goto(p, "probe", key[p], U32(0))
           \/ /\ dir \in dirs
              /\ UNCHANGED dirs
              /\ NoFault
              /\ Goto(p, "probe", key[p], U32(0))
           \/ /\ CanFault(p)
              /\ Faulted
              /\ UNCHANGED dirs
              /\ Fail(p)

\* Mutant of Probe: the content is stored again although its file is there.
ProbeAlwaysStores(p) ==
    LET path == storage_file_path(Root, key[p])
    IN  /\ pc[p] = "probe"
        /\ FsSame
        /\ UNCHANGED dirs
        /\ \/ /\ NoFault
              /\ Goto(p, "c_open", key[p], U32(0))
           \/ /\ CanFault(p)
              /\ Faulted
              /\ Fail(p)

\* store: match fs::metadata(&storage_file_path)
Probe(p) ==
    LET path == storage_file_path(Root, key[p])
    IN  /\ pc[p] = "probe"
        /\ FsSame
        /\ UNCHANGED dirs
        /\ \/ /\ Exists(path)
              /\ NoFault
              /\ Goto(p, "g_meta", key[p], U32(0))
           \/ /\ ~Exists(path)
              /\ NoFault
              /\ Goto(p, "c_open", key[p], U32(0))
           \/ /\ CanFault(p)
              /\ Faulted
              /\ Fail(p)

\* Storable::store: the destination is created or truncated
\* (OpenOptions...open for Vec<u8>, fs::copy for PathBuf)
ContentOpen(p) ==
    LET path == storage_file_path(Root, key[p])
    IN  /\ pc[p] = "c_open"
        /\ UNCHANGED dirs
        /\ \/ /\ NoFault
              /\ OpenTruncate(p, path)
              /\ Goto(p, "c_write", key[p], U32(0))
           \/ /\ CanFault(p)
              /\ Faulted
              /\ FsSame
              /\ Fail(p)

\* Storable::store: the bytes are written (write_all, or the copy of fs::copy);
\* a failed write leaves a part of them.
ContentWrite(p) ==
    LET bytes == Input(op[p])
    IN  /\ pc[p] = "c_write"
        /\ UNCHANGED dirs
        /\ \/ /\ NoFault
              /\ WriteClose(p, bytes, Len(bytes))
              /\ Goto(p, "g_meta", key[p], U32(0))
           \/ /\ CanFault(p)
              /\ Faulted
              /\ \E n \in 0 .. (Len(bytes) - 1) : WriteClose(p, bytes, n)
              /\ Fail(p)

\* Mutant of GotRefcount: set_refcount is entered at its write branch whatever
\* the count, so a count of 0 is written as a record instead of removing the file.
GotRefcountAlwaysWrites(p, c) ==
    IF IsStore(op[p])
    THEN Goto(p, "r_open", key[p], Incremented(c))
    ELSE IF IsZero(c)
    THEN Return(p, "ok", NoKey, <<>>, <<>>)
    ELSE Goto(p, "r_open", key[p], Decremented(c))

\* Mutant of GotRefcount: set_refcount removes the refcount file at a count of 1
\* already (`refcount <= 1` for `refcount < 1`).
GotRefcountRemovesAtOne(p, c) ==
    IF IsStore(op[p])
    THEN LET n == Incremented(c)
         IN  Goto(p, IF IsZero(n) \/ n = U32(1) THEN "r_rm" ELSE "r_open", key[p], n)
    ELSE IF IsZero(c)
    THEN Return(p, "ok", NoKey, <<>>, <<>>)
    ELSE LET n == Decremented(c)
         IN  Goto(p, IF IsZero(n) \/ n = U32(1) THEN "r_rm" ELSE "r_open", key[p], n)

\* `refcount + 1` on the largest u32 in a build with overflow checks: the
\* thread panics and the call never returns.
Panic(p) == Goto(p, "panicked", key[p], rcnt[p])

\* get_refcount returned Ok(c) to store (lines 179-181) or to delete (233-238).
\* The sum of store wraps in a build without overflow checks and panics in one
\* with them.
GotRefcount(p, c) ==
    IF IsStore(op[p])
    THEN \/ LET n == Incremented(c)
            IN  Goto(p, IF IsZero(n) THEN "r_rm" ELSE "r_open", key[p], n)
         \/ /\ c = MaxU32
            /\ Panic(p)
    ELSE IF IsZero(c)
    THEN Return(p, "ok", NoKey, <<>>, <<>>)
    ELSE LET n == Decremented(c)
         IN  Goto(p, IF IsZero(n) THEN "r_rm" ELSE "r_open", key[p], n)

\* get_refcount: match fs::metadata(&storage_refcount_path)
RcMeta(p) ==
    LET path == storage_refcount_path(Root, key[p])
    IN  /\ pc[p] = "g_meta"
        /\ FsSame
        /\ UNCHANGED dirs
        /\ \/ /\ ~Exists(path)
              /\ NoFault
              /\ GotRefcount(p, U32(0))
           \/ /\ Exists(path)
              /\ NoFault
              /\ Goto(p, "g_open", key[p], U32(0))
           \/ /\ CanFault(p)
              /\ Faulted
              /\ Fail(p)

\* get_refcount: File::open(&storage_refcount_path)
RcOpen(p) ==
    LET path == storage_refcount_path(Root, key[p])
    IN  /\ pc[p] = "g_open"
        /\ UNCHANGED dirs
        /\ \/ /\ Exists(path)
              /\ NoFault
              /\ Fs(dirent, [fh EXCEPT ![p] = dirent[path]], inode)
              /\ Goto(p, "g_read", key[p], U32(0))
           \/ /\ ~Exists(path)
              /\ NoFault
              /\ FsSame
              /\ Fail(p)
           \/ /\ CanFault(p)
              /\ Faulted
              /\ FsSame
              /\ Fail(p)

\* Mutant of RcRead: a record that ends early is an error like any other.
RcReadStrict(p) ==
    /\ pc[p] = "g_read"
    /\ UNCHANGED dirs
    /\ CloseOnly(p)
    /\ \/ /\ NoFault
          /\ Len(inode[fh[p]]) >= 4
          /\ GotRefcount(p, ReadRefcount(inode[fh[p]]))
       \/ /\ NoFault
          /\ Len(inode[fh[p]]) < 4
          /\ Fail(p)
       \/ /\ CanFault(p)
          /\ Faulted
          /\ Fail(p)

\* get_refcount: f.read_u32::<BigEndian>()
RcRead(p) ==
    /\ pc[p] = "g_read"
    /\ UNCHANGED dirs
    /\ CloseOnly(p)
    /\ \/ /\ NoFault
          /\ GotRefcount(p, ReadRefcount(inode[fh[p]]))
       \/ /\ CanFault(p)
          /\ Faulted
          /\ Fail(p)

\* Mutant of DidSetRefcount: delete removes the content whatever count is left.
DidSetRefcountEager(p) ==
    IF IsStore(op[p])
    THEN Return(p, "ok", key[p], <<>>, <<>>)
    ELSE Goto(p, "d_rm", key[p], rcnt[p])

\* Mutant of DidSetRefcount: delete removes the content at a count of 1 already
\* (`refcount <= 1` for `refcount < 1`).
DidSetRefcountAtOne(p) ==
    IF IsStore(op[p])
    THEN Return(p, "ok", key[p], <<>>, <<>>)
    ELSE IF IsZero(rcnt[p]) \/ rcnt[p] = U32(1)
    THEN Goto(p, "d_rm", key[p], rcnt[p])
    ELSE Return(p, "ok", NoKey, <<>>, <<>>)

\* set_refcount returned Ok(()) to store (lines 181-182) or to delete (238-246).
DidSetRefcount(p) ==
    IF IsStore(op[p])
    THEN Return(p, "ok", key[p], <<>>, <<>>)
    ELSE IF IsZero(rcnt[p])
    THEN Goto(p, "d_rm", key[p], rcnt[p])
    ELSE Return(p, "ok", NoKey, <<>>, <<>>)

\* set_refcount, refcount < 1: fs::remove_file(&storage_refcount_path)
RcRemove(p) ==
    LET path == storage_refcount_path(Root, key[p])
    IN  /\ pc[p] = "r_rm"
        /\ UNCHANGED dirs
        /\ \/ /\ Exists(path)
              /\ NoFault
              /\ Unlink(path)
              /\ DidSetRefcount(p)
           \/ /\ ~Exists(path)
              /\ NoFault
              /\ FsSame
              /\ Fail(p)
           \/ /\ CanFault(p)
              /\ Faulted
              /\ FsSame
              /\ Fail(p)

\* set_refcount, refcount >= 1: OpenOptions...truncate(true).open(&storage_refcount_path)
RcCreate(p) ==
    LET path == storage_refcount_path(Root, key[p])
    IN  /\ pc[p] = "r_open"
        /\ UNCHANGED dirs
        /\ \/ /\ NoFault
              /\ OpenTruncate(p, path)
              /\ Goto(p, "r_write", key[p], rcnt[p])
           \/ /\ CanFault(p)
              /\ Faulted
              /\ FsSame
              /\ Fail(p)

\* set_refcount: f.write_u32::<BigEndian>(refcount); a failed write leaves a
\* part of the record.
RcWrite(p) ==
    LET bytes == U32ToBE(rcnt[p])
    IN  /\ pc[p] = "r_write"
        /\ UNCHANGED dirs
        /\ \/ /\ NoFault
              /\ WriteClose(p, bytes, 4)
              /\ DidSetRefcount(p)
           \/ /\ CanFault(p)
              /\ Faulted
              /\ \E n \in 0 .. 3 : WriteClose(p, bytes, n)
              /\ Fail(p)

\* delete, refcount < 1 after the decrement: fs::remove_file(&path)
ContentRemove(p) ==
    LET path == storage_file_path(Root, key[p])
    IN  /\ pc[p] = "d_rm"
        /\ UNCHANGED dirs
        /\ \/ /\ Exists(path)
              /\ NoFault
              /\ Unlink(path)
              /\ Return(p, "ok", NoKey, <<>>, <<>>)
           \/ /\ ~Exists(path)
              /\ NoFault
              /\ FsSame
              /\ Fail(p)
           \/ /\ CanFault(p)
              /\ Faulted
              /\ FsSame
              /\ Fail(p)

\* retrieve_data, retrieve_file: match fs::metadata(&path);
\* retrieve_file answers the path itself (Storable::retrieve for PathBuf).
RetProbe(p) ==
    LET path == storage_file_path(Root, key[p])
    IN  /\ pc[p] = "t_probe"
        /\ UNCHANGED dirs
        /\ FsSame
        /\ \/ /\ ~Exists(path)
              /\ NoFault
              /\ NotFound(p)
           \/ /\ Exists(path)
              /\ op[p].kind = "retrieve_file"
              /\ NoFault
              /\ Return(p, "some", NoKey, <<>>, path)
           \/ /\ Exists(path)
              /\ op[p].kind = "retrieve_data"
              /\ NoFault
              /\ Goto(p, "t_open", key[p], U32(0))
           \/ /\ CanFault(p)
              /\ Faulted
              /\ NotFound(p)

\* Storable::retrieve for Vec<u8>: File::open(dest_path)
RetOpen(p) ==
    LET path == storage_file_path(Root, key[p])
    IN  /\ pc[p] = "t_open"
        /\ UNCHANGED dirs
        /\ \/ /\ Exists(path)
              /\ NoFault
              /\ Fs(dirent, [fh EXCEPT ![p] = dirent[path]], inode)
              /\ Goto(p, "t_read", key[p], U32(0))
           \/ /\ ~Exists(path)
              /\ NoFault
              /\ FsSame
              /\ NotFound(p)
           \/ /\ CanFault(p)
              /\ Faulted
              /\ FsSame
              /\ NotFound(p)

\* Storable::retrieve for Vec<u8>: file.read_to_end(&mut buf)
RetRead(p) ==
    /\ pc[p] = "t_read"
    /\ UNCHANGED dirs
    /\ CloseOnly(p)
    /\ \/ /\ NoFault
          /\ Return(p, "some", NoKey, inode[fh[p]], <<>>)
       \/ /\ CanFault(p)
          /\ Faulted
          /\ NotFound(p)

Next ==
    \E p \in Procs :
        \/ Begin(p)
        \/ Hash(p)
        \/ MkDir(p)
        \/ Probe(p)
        \/ ContentOpen(p)
        \/ ContentWrite(p)
        \/ RcMeta(p)
        \/ RcOpen(p)
        \/ RcRead(p)
        \/ RcRemove(p)
        \/ RcCreate(p)
        \/ RcWrite(p)
        \/ ContentRemove(p)
        \/ RetProbe(p)
        \/ RetOpen(p)
        \/ RetRead(p)

Spec == Init /\ [][Next]_vars

\* The same calls on a store directory that is already in use.
SpecSeeded == InitSeeded /\ [][Next]_vars

\* ------------------------------------------------------------ observers

\* The refcount a get_refcount on an idle store would answer for k.
PersistedRefcount(k) ==
    IF Exists(storage_refcount_path(Root, k))
    THEN Num(ReadRefcount(BytesAt(storage_refcount_path(Root, k))))
    ELSE 0

\* The content file of k is there (what fs::metadata of its path answers).
HasContent(k) == Exists(storage_file_path(Root, k))

\* The bytes whose hash is k.
ContentOf(k) == CHOOSE c \in Contents : HashData(c) = k

\* No call is running.
Quiet == \A p \in Procs : pc[p] = "idle"

\* The calls so far ran one at a time, and no filesystem call was failed.
Serial == ~raced

FaultFree == nfaults = 0

\* p takes this step.
Moved(p) == pc'[p] # pc[p]

\* p's call returns in this step.
Returns(p) == pc[p] # "idle" /\ pc'[p] = "idle"

\* The file at path q is the same file with the same bytes after the step.
SameFile(q) ==
    /\ dirent'[q] = dirent[q]
    /\ Exists(q) => inode'[dirent[q]] = inode[dirent[q]]

\* ------------------------------------------------------------------ claims

\* C1. Deduplication: while the calls run one at a time, no filesystem call
\* fails and nothing is deleted, every store returns the hash of its content,
\* a key stored n >= 1 times has its content file, there is one content file per
\* stored key, and the persisted refcount of the key is n.
C1_Deduplication ==
    /\ \A p \in Procs :
         (res[p].out = "ok" /\ IsStore(res[p].call))
            => res[p].key = HashData(Input(res[p].call))
    /\ (Serial /\ FaultFree /\ Quiet /\ (\A k \in Keys : dels[k] = 0))
         => /\ \A k \in Keys :
                 /\ PersistedRefcount(k) = stores[k]
                 /\ stores[k] >= 1 =>
                      /\ HasContent(k)
                      /\ BytesAt(storage_file_path(Root, k)) = ContentOf(k)
            /\ Cardinality({q \in ContentPaths : Exists(q)})
                 = Cardinality({k \in Keys : stores[k] >= 1})

\* C1 witness: one content stored three times in a row: one file, refcount 3.
C1_Witness ==
    /\ Serial /\ FaultFree /\ Quiet
    /\ \E k \in Keys :
         /\ stores[k] = 3 /\ dels[k] = 0
         /\ PersistedRefcount(k) = 3
         /\ HasContent(k)
         /\ res["p1"].out = "ok" /\ res["p1"].key = k

C3_LifecycleState ==
    (Serial /\ FaultFree /\ Quiet)
       => \A k \in Keys :
            /\ PersistedRefcount(k) = refs[k]
            /\ HasContent(k) <=> refs[k] >= 1
            /\ refs[k] = 0 => ~Exists(storage_refcount_path(Root, k))

C3_LifecycleStep ==
    (~raced' /\ nfaults' = 0)
       => /\ \A k \in Keys :
               (HasContent(k) /\ ~HasContent(k)')
                  <=> \E p \in Procs :
                        /\ op[p].kind = "delete" /\ op[p].key = k
                        /\ Returns(p)
                        /\ res'[p].out = "ok"
                        /\ refs[k] = 1 /\ refs'[k] = 0
          /\ \A p \in Procs :
               (Returns(p) /\ op[p].kind = "retrieve_data" /\ refs[op[p].key] = 0)
                  => res'[p].out = "none"

C3_Lifecycle == []C3_LifecycleState /\ [][C3_LifecycleStep]_vars

\* C3 witness: a key stored once and deleted once has no content file and no
\* refcount file, and the retrieve_data that followed answered not found.
C3_Witness ==
    /\ Serial /\ FaultFree /\ Quiet
    /\ res["p1"].call.kind = "retrieve_data"
    /\ res["p1"].out = "none"
    /\ stores[res["p1"].call.key] = 1
    /\ dels[res["p1"].call.key] = 1
    /\ ~HasContent(res["p1"].call.key)
    /\ ~Exists(storage_refcount_path(Root, res["p1"].call.key))

\* C4. Refcount floor: a delete that finds no refcount file, on a filesystem
\* that fails none of its calls, returns success in that step and changes no
\* file and no directory.
C4_RefcountFloor ==
    [][\A p \in Procs :
          (/\ op[p].kind = "delete"
           /\ pc[p] = "g_meta"
           /\ Moved(p)
           /\ ~Exists(storage_refcount_path(Root, op[p].key))
           /\ NoFault)
             => /\ pc'[p] = "idle"
                /\ res'[p].out = "ok"
                /\ dirent' = dirent
                /\ inode' = inode
                /\ dirs' = dirs]_vars

\* C4 witness: a delete of a key already deleted down to 0 returned success.
C4_Witness ==
    /\ Serial /\ FaultFree /\ Quiet
    /\ res["p1"].call.kind = "delete"
    /\ res["p1"].out = "ok"
    /\ stores[res["p1"].call.key] = 1
    /\ dels[res["p1"].call.key] = 2
    /\ PersistedRefcount(res["p1"].call.key) = 0

\* C5. Lost increment: on a filesystem that fails no call, n >= 1 stores of one
\* content that have all returned, with no delete of the key, leave a persisted
\* refcount between 1 and n, and exactly n when the calls ran one at a time (each
\* whole store executed atomically). With overlapping calls n is not always
\* reached: the witness is two stores of new, identical content ending at 1.
C5_StoresConverge ==
    \A k \in Keys :
        (FaultFree /\ Quiet /\ dels[k] = 0 /\ stores[k] >= 1)
           => /\ HasContent(k)
              /\ PersistedRefcount(k) >= 1
              /\ PersistedRefcount(k) <= stores[k]
              /\ Serial => PersistedRefcount(k) = stores[k]

\* C5 witness: two overlapping stores of new, identical content have both
\* returned its key, and the persisted refcount is 1.
C5_Witness ==
    /\ raced /\ FaultFree /\ Quiet
    /\ calls = 2
    /\ \E k \in Keys :
         /\ stores[k] = 2
         /\ res["p1"].out = "ok" /\ res["p1"].key = k
         /\ res["p2"].out = "ok" /\ res["p2"].key = k
         /\ HasContent(k)
         /\ PersistedRefcount(k) = 1

\* C6. Store/delete race: on a filesystem that fails no call, a key is left
\* with a persisted refcount >= 1 and no content file only by calls that
\* overlapped, a delete of the key among them. The witness is the race itself:
\* a store and a delete of a key at refcount 1 both return success, the refcount
\* is >= 1, the content file is gone, and a later retrieve_data finds nothing.
C6_ContentLostOnlyByRace ==
    \A k \in Keys :
        (FaultFree /\ Quiet /\ PersistedRefcount(k) >= 1 /\ ~HasContent(k))
           => raced /\ dels[k] >= 1 /\ stores[k] >= 1

\* C6 witness: after one store, a store and a delete overlapped and both
\* succeeded (2 stores and 1 delete leave 1 reference); the refcount is >= 1,
\* the content file is removed, and the retrieve_data that followed answered
\* not found.
C6_Witness ==
    /\ raced /\ FaultFree /\ Quiet
    /\ calls = 4
    /\ \E k \in Keys :
         /\ stores[k] = 2 /\ dels[k] = 1 /\ refs[k] = 1
         /\ PersistedRefcount(k) >= 1
         /\ ~HasContent(k)
         /\ res["p1"].call.kind = "retrieve_data"
         /\ res["p1"].call.key = k
         /\ res["p1"].out = "none"
         /\ res["p2"].out = "ok"

\* C7. Key purity: the key of a store is the hash of the bytes stored, whether
\* they come from a buffer or from a source file of any name; different bytes
\* get different keys; and a step of a store touches no file but the content
\* file and the refcount file of that key.
C7_KeyOfBytes ==
    /\ \A p \in Procs :
         (IsStore(op[p]) /\ key[p] # NoKey) => key[p] = HashData(Input(op[p]))
    /\ \A p \in Procs :
         (IsStore(res[p].call) /\ res[p].out = "ok")
            => res[p].key = HashData(Input(res[p].call))
    /\ \A s \in SrcPaths, c \in Contents :
         SrcExists(s) => (HashFile(s) = HashData(c) <=> SrcBytes(s) = c)
    /\ \A c1, c2 \in Contents : HashData(c1) = HashData(c2) => c1 = c2

C7_StoreTouchesItsKey ==
    \A p \in Procs :
        (IsStore(op[p]) /\ Moved(p))
           => \A q \in AllPaths :
                SameFile(q)
                   \/ q = storage_file_path(Root, HashData(Input(op[p])))
                   \/ q = storage_refcount_path(Root, HashData(Input(op[p])))

C7_KeyPurity == []C7_KeyOfBytes /\ [][C7_StoreTouchesItsKey]_vars

\* C7 witness: a store_data and a store_file of the same bytes returned the
\* same key, which has one content file and refcount 2.
C7_Witness ==
    /\ res["p1"].call.kind = "store_data"
    /\ res["p2"].call.kind = "store_file"
    /\ res["p1"].out = "ok" /\ res["p2"].out = "ok"
    /\ res["p1"].key = res["p2"].key
    /\ HasContent(res["p1"].key)
    /\ PersistedRefcount(res["p1"].key) = 2

\* C8. Retrieve of a missing key: retrieve_data and retrieve_file answer
\* Some or None, never an error; they answer None in the step that finds no
\* file at the content path; and no step of theirs changes a content file, a
\* refcount file or a directory.
C8_RetrieveStep ==
    \A p \in Procs :
        (op[p].kind \in {"retrieve_data", "retrieve_file"} /\ Moved(p))
           => /\ \A q \in AllPaths : SameFile(q)
              /\ dirs' = dirs
              /\ Returns(p) => res'[p].out \in {"some", "none"}
              /\ (pc[p] \in {"t_probe", "t_open"}
                    /\ ~Exists(storage_file_path(Root, op[p].key)))
                   => (Returns(p) /\ res'[p].out = "none")

C8_RetrieveMissing == [][C8_RetrieveStep]_vars

\* C8 witness: a retrieve_data and a retrieve_file of a key with no content
\* file both answered None.
C8_Witness ==
    /\ res["p1"].call.kind = "retrieve_data"
    /\ res["p2"].call.kind = "retrieve_file"
    /\ res["p1"].out = "none" /\ res["p2"].out = "none"
    /\ res["p1"].call.key = res["p2"].call.key
    /\ ~HasContent(res["p1"].call.key)
    /\ FaultFree

\* C9. Delete failure ordering: while the calls run one at a time, delete
\* attempts the removal of the content file only once no refcount file is left;
\* a removal that fails returns an error and leaves the content file with
\* refcount 0; and a delete that starts from such an orphan returns success and
\* leaves the content file where it is.
C9_RefcountGoneFirst ==
    \A p \in Procs :
        (Serial /\ pc[p] = "d_rm")
           => /\ ~Exists(storage_refcount_path(Root, key[p]))
              /\ PersistedRefcount(key[p]) = 0
              /\ HasContent(key[p])

C9_FailureStep ==
    \A p \in Procs, k \in Keys :
        /\ (pc[p] = "d_rm" /\ key[p] = k /\ Moved(p) /\ Faulted /\ ~raced')
              => /\ Returns(p) /\ res'[p].out = "err"
                 /\ SameFile(storage_file_path(Root, k))
                 /\ HasContent(k)'
                 /\ PersistedRefcount(k)' = 0
        /\ (op[p].kind = "delete" /\ op[p].key = k /\ pc[p] = "g_meta"
               /\ Moved(p) /\ NoFault
               /\ HasContent(k) /\ PersistedRefcount(k) = 0
               /\ ~Exists(storage_refcount_path(Root, k)))
              => /\ Returns(p) /\ res'[p].out = "ok"
                 /\ SameFile(storage_file_path(Root, k))
                 /\ HasContent(k)'

C9_DeleteFailureOrdering == []C9_RefcountGoneFirst /\ [][C9_FailureStep]_vars

\* C9 witness: a store, a delete whose content removal failed, and a later
\* delete that returned success: the content file is still there, with no
\* refcount file.
C9_Witness ==
    /\ Serial /\ Quiet
    /\ calls = 3 /\ nfaults = 1
    /\ res["p1"].call.kind = "delete" /\ res["p1"].out = "ok"
    /\ stores[res["p1"].call.key] = 1
    /\ dels[res["p1"].call.key] = 2
    /\ HasContent(res["p1"].call.key)
    /\ ~Exists(storage_refcount_path(Root, res["p1"].call.key))

\* The steps of store, in the order of the code: 1 hash, 2 shard directory,
\* 3 content probe and persist, 4 refcount increment; 5 is the return.
StorePhase(label) ==
    CASE label = "hash" -> 1
      [] label = "mkdir" -> 2
      [] label \in {"probe", "c_open", "c_write"} -> 3
      [] label \in {"g_meta", "g_open", "g_read", "r_open", "r_write", "r_rm"} -> 4
      [] OTHER -> 5

\* C10. Store aborts at the first failure without rollback: a store goes through
\* its steps in the order hash, shard directory, content probe/persist, refcount
\* increment; a step that fails returns the error in that very step; the failing
\* step removes no file and no directory; the steps before the refcount write
\* leave every refcount file as it is; and a failure in the refcount step leaves
\* the content file in place and the persisted refcount below the incremented
\* count.
C10_StoreStep ==
    \A p \in Procs, k \in Keys :
        (IsStore(op[p]) /\ Moved(p) /\ pc[p] # "idle")
           => /\ StorePhase(pc'[p]) >= StorePhase(pc[p])
              /\ ~Returns(p) => StorePhase(pc'[p]) <= StorePhase(pc[p]) + 1
              /\ (Returns(p) /\ res'[p].out = "ok") => StorePhase(pc[p]) = 4
              /\ Faulted => (Returns(p) /\ res'[p].out = "err")
              /\ (Returns(p) /\ res'[p].out = "err")
                    => /\ dirs \subseteq dirs'
                       /\ \A q \in AllPaths : Exists(q) => Exists(q)'
                       /\ stores' = stores
              /\ pc[p] \notin {"r_open", "r_write", "r_rm"}
                    => SameFile(storage_refcount_path(Root, k))
              /\ (key[p] = k /\ StorePhase(pc[p]) = 4 /\ ~raced'
                     /\ Returns(p) /\ res'[p].out = "err")
                    => /\ HasContent(k)'
                       /\ SameFile(storage_file_path(Root, k))
                       /\ pc[p] \in {"r_open", "r_write"}
                             => PersistedRefcount(k)' < Num(rcnt[p])

C10_StoreAbortsNoRollback == [][C10_StoreStep]_vars

\* C10 witness: the only call so far, a store of new content, failed in its
\* refcount step: the whole content is in place and the refcount reads 0.
C10_Witness ==
    /\ Quiet /\ calls = 1 /\ nfaults = 1
    /\ IsStore(res["p1"].call)
    /\ res["p1"].out = "err"
    /\ \E k \in Keys :
         /\ HasContent(k)
         /\ BytesAt(storage_file_path(Root, k)) = ContentOf(k)
         /\ PersistedRefcount(k) = 0
         /\ stores[k] = 0

\* The roots and keys the path derivations are tried on: the root of the store,
\* a nested root and the empty root; the keys of the store, a key of exactly two
\* characters, the key "abcdef0123" and a key of 56 hex characters.
PathRoots == {Root, <<"srv", "store">>, <<>>}

Hex56(prefix) == prefix \o [i \in 1 .. (56 - Len(prefix)) |-> "0"]

PathKeys ==
    Keys \cup {<<"a", "b">>,
                <<"a", "b", "c", "d", "e", "f", "0", "1", "2", "3">>,
                Hex56(<<"a", "b", "9">>)}

Suffix == <<".", "r", "e", "f", "c", "o", "u", "n", "t">>

\* root/key[0:2], root/key[0:2]/key[2:] and root/key[0:2]/(key[2:] + ".refcount"),
\* spelled component by component.
ShardDirOf(r, k) == r \o <<SubSeq(k, 1, 2)>>

ContentPathOf(r, k) == r \o <<SubSeq(k, 1, 2), SubSeq(k, 3, Len(k))>>

RefcountPathOf(r, k) == r \o <<SubSeq(k, 1, 2), SubSeq(k, 3, Len(k)) \o Suffix>>

\* C11. Sharded path derivation: for every root and every key of at least two
\* characters the shard directory is root/key[0:2], the content path is
\* root/key[0:2]/key[2:] and the refcount path is
\* root/key[0:2]/(key[2:] + ".refcount"); the directory name and the file name
\* put together are the key again; and every step of a store, a retrieve or a
\* delete of a key touches no directory and no file but these, retrieve_file
\* answering the content path itself.
C11_Derivations ==
    /\ \A r \in PathRoots, k \in PathKeys :
         /\ Len(k) >= 2
         /\ storage_file_dir(r, k) = ShardDirOf(r, k)
         /\ storage_file_path(r, k) = ContentPathOf(r, k)
         /\ storage_refcount_path(r, k) = RefcountPathOf(r, k)
         /\ Len(storage_file_path(r, k)) = Len(r) + 2
         /\ Len(storage_refcount_path(r, k)) = Len(r) + 2
         /\ storage_file_dir(r, k)[Len(r) + 1] \o storage_file_name(k) = k
         /\ Len(storage_refcount_name(k)) = Len(k) - 2 + 9
    /\ storage_file_path(<<"root">>, <<"a", "b", "c", "d", "e", "f", "0", "1", "2", "3">>)
         = <<"root", <<"a", "b">>, <<"c", "d", "e", "f", "0", "1", "2", "3">>>>
    /\ storage_refcount_path(<<"root">>, <<"a", "b", "c", "d", "e", "f", "0", "1", "2", "3">>)
         = <<"root", <<"a", "b">>,
             <<"c", "d", "e", "f", "0", "1", "2", "3",
               ".", "r", "e", "f", "c", "o", "u", "n", "t">>>>

\* (the facts of the path functions alone are looked at in the initial state)
C11_Paths ==
    /\ calls = 0 => C11_Derivations
    /\ \A p \in Procs :
         (res[p].out = "some" /\ res[p].call.kind = "retrieve_file")
            => res[p].path = ContentPathOf(Root, res[p].call.key)

C11_TouchesItsPaths ==
    \A p \in Procs, k \in Keys :
        (Moved(p) /\ pc[p] # "idle" /\ key[p] = k)
           => /\ \A q \in AllPaths :
                   SameFile(q)
                      \/ q = ContentPathOf(Root, k)
                      \/ q = RefcountPathOf(Root, k)
              /\ dirs \subseteq dirs'
              /\ dirs' \subseteq dirs \cup {ShardDirOf(Root, k)}
              /\ pc[p] \in {"c_open", "c_write", "d_rm"}
                    => SameFile(RefcountPathOf(Root, k))
              /\ pc[p] \in {"r_open", "r_write", "r_rm"}
                    => SameFile(ContentPathOf(Root, k))

C11_PathDerivation == []C11_Paths /\ [][C11_TouchesItsPaths]_vars

\* C11 witness: after a store of the bytes <<7>>, whose key is "0107", a
\* retrieve_file of the key answered root/01/07; the shard directory root/01
\* is there and root/01/07.refcount holds a record.
C11_Witness ==
    /\ Serial /\ FaultFree /\ Quiet /\ calls = 2
    /\ res["p1"].call.kind = "retrieve_file"
    /\ res["p1"].call.key = <<"0", "1", "0", "7">>
    /\ res["p1"].out = "some"
    /\ res["p1"].path = <<"root", <<"0", "1">>, <<"0", "7">>>>
    /\ <<"root", <<"0", "1">>>> \in dirs
    /\ dirent[<<"root", <<"0", "1">>, <<"0", "7">>>>] # 0
    /\ dirent[<<"root", <<"0", "1">>, <<"0", "7", ".", "r", "e", "f", "c", "o", "u", "n", "t">>>>] # 0
    /\ stores[<<"0", "1", "0", "7">>] = 1

\* C12. Store never rewrites existing content: a store whose probe finds a file
\* at the content path of its key goes straight on to the refcount and leaves
\* the file as it is; the content file is opened for writing only from a probe
\* that found no file; no step of the refcount increment changes the content
\* file; and, the calls running one at a time, the store persists the refcount
\* it found plus one and returns the key.
C12_StoreStep ==
    \A p \in Procs, k \in Keys :
        (IsStore(op[p]) /\ key[p] = k /\ Moved(p))
           => /\ (pc[p] = "probe" /\ Exists(storage_file_path(Root, k)) /\ NoFault)
                    => /\ pc'[p] = "g_meta"
                       /\ SameFile(storage_file_path(Root, k))
              /\ pc'[p] \in {"c_open", "c_write"}
                    => /\ pc[p] \in {"probe", "c_open"}
                       /\ pc[p] = "probe" => ~Exists(storage_file_path(Root, k))
              /\ pc[p] \notin {"c_open", "c_write"}
                    => SameFile(storage_file_path(Root, k))
              /\ (pc[p] \in {"g_meta", "g_read"} /\ pc'[p] = "r_open" /\ ~raced')
                    => Num(rcnt'[p]) = PersistedRefcount(k) + 1
              /\ (pc[p] = "r_write" /\ NoFault /\ ~raced')
                    => /\ Returns(p)
                       /\ res'[p].out = "ok"
                       /\ res'[p].key = k
                       /\ PersistedRefcount(k)' = Num(rcnt[p])

C12_NoRewrite == [][C12_StoreStep]_vars

\* C12 witness: a store failed in the middle of writing new content and left
\* an incomplete content file; the next store of the same content returned the
\* key with refcount 1, and the content file is still the incomplete one.
C12_Witness ==
    /\ Serial /\ Quiet /\ calls = 2 /\ nfaults = 1
    /\ IsStore(res["p1"].call)
    /\ res["p1"].out = "ok"
    /\ \E k \in Keys :
         /\ res["p1"].key = k
         /\ HasContent(k)
         /\ BytesAt(storage_file_path(Root, k)) # ContentOf(k)
         /\ PersistedRefcount(k) = 1

\* The counts the record is tried on, and the records that end early.
RecordCounts ==
    {U32(1), U32(2), U32(255), U32(256), U32(258), U32(65535), U32(65536),
     U32(16909060), <<32767, 65535>>, <<32768, 0>>, Decremented(MaxU32), MaxU32}

ShortRecords == {<<>>, <<0>>, <<0, 0>>, <<0, 0, 1>>, <<255, 255, 255>>}

\* The 4 bytes of a number below 2^31, most significant first, by division.
BE4(n) == <<n \div 16777216, (n \div 65536) % 256, (n \div 256) % 256, n % 256>>

\* C13. Refcount ledger round trip: a record that ends before 4 bytes reads as 0
\* and an absent file counts as 0; a written record is the 4 bytes of the count,
\* most significant first, and reads back as the count; a refcount file that
\* holds a complete record holds exactly 4 bytes and never the value 0;
\* set_refcount writes only counts above 0 and removes the file at 0. The calls
\* running one at a time: after a successful set_refcount(c), c > 0, the file
\* holds the record of c; after a successful set_refcount(0) there is no file;
\* and a get_refcount that finds no file or a short record answers 0 (a delete
\* returns at once, a store goes on to persist 1).
C13_Codec ==
    /\ \A b \in ShortRecords : ReadRefcount(b) = U32(0)
    /\ \A c \in RecordCounts :
         /\ Len(U32ToBE(c)) = 4
         /\ \A i \in 1 .. 4 : U32ToBE(c)[i] \in 0 .. 255
         /\ ReadRefcount(U32ToBE(c)) = c
         /\ c[1] < Half \div 2 => U32ToBE(c) = BE4(Num(c))
    /\ U32ToBE(U32(1)) = <<0, 0, 0, 1>>
    /\ U32ToBE(U32(258)) = <<0, 0, 1, 2>>
    /\ U32ToBE(U32(16909060)) = <<1, 2, 3, 4>>
    /\ U32ToBE(MaxU32) = <<255, 255, 255, 255>>
    /\ ReadRefcount(<<1, 2, 3, 4>>) = U32(16909060)

\* (the facts of the record functions alone are looked at in the initial state)
C13_Records ==
    /\ calls = 0 => C13_Codec
    /\ \A k \in Keys :
         (Exists(storage_refcount_path(Root, k))
             /\ Len(BytesAt(storage_refcount_path(Root, k))) >= 4)
            => /\ Len(BytesAt(storage_refcount_path(Root, k))) = 4
               /\ ReadRefcount(BytesAt(storage_refcount_path(Root, k))) # U32(0)
               /\ BytesAt(storage_refcount_path(Root, k)) # <<0, 0, 0, 0>>
    /\ \A p \in Procs :
         /\ pc[p] = "r_rm" => IsZero(rcnt[p])
         /\ pc[p] \in {"r_open", "r_write"} => ~IsZero(rcnt[p])

C13_LedgerStep ==
    \A p \in Procs, k \in Keys :
        (key[p] = k /\ Moved(p) /\ NoFault /\ ~raced')
           => /\ pc[p] = "r_write"
                    => /\ Exists(storage_refcount_path(Root, k))'
                       /\ BytesAt(storage_refcount_path(Root, k))' = BE4(Num(rcnt[p]))
                       /\ ReadRefcount(BytesAt(storage_refcount_path(Root, k)))' = rcnt[p]
              /\ (pc[p] = "r_rm" /\ Exists(storage_refcount_path(Root, k)))
                    => /\ ~Exists(storage_refcount_path(Root, k))'
                       /\ PersistedRefcount(k)' = 0
              /\ \/ pc[p] = "g_meta" /\ ~Exists(storage_refcount_path(Root, k))
                 \/ pc[p] = "g_read" /\ Len(BytesAt(storage_refcount_path(Root, k))) < 4
                 => IF IsStore(op[p])
                    THEN pc'[p] = "r_open" /\ rcnt'[p] = U32(1)
                    ELSE Returns(p) /\ res'[p].out = "ok"
              /\ (pc[p] = "g_read" /\ Len(BytesAt(storage_refcount_path(Root, k))) >= 4)
                    => LET n == Num(BEToU32(BytesAt(storage_refcount_path(Root, k))))
                       IN  /\ n = PersistedRefcount(k)
                           /\ BytesAt(storage_refcount_path(Root, k)) = BE4(n)
                           /\ Num(rcnt'[p]) = IF IsStore(op[p]) THEN n + 1 ELSE n - 1

C13_LedgerRoundTrip == []C13_Records /\ [][C13_LedgerStep]_vars

\* C13 witness: a store is about to persist the count 1 although a refcount
\* file is there: its get_refcount read a record of fewer than 4 bytes, which an
\* earlier failed write left, as 0.
C13_Witness ==
    /\ Serial /\ nfaults = 1 /\ calls = 2
    /\ IsStore(op["p1"])
    /\ pc["p1"] = "r_open"
    /\ rcnt["p1"] = U32(1)
    /\ Exists(storage_refcount_path(Root, key["p1"]))
    /\ Len(BytesAt(storage_refcount_path(Root, key["p1"]))) \in 1 .. 3

\* The filesystem call of p's step fails because the directory is there already.
DirAlreadyExists(p) ==
    pc[p] = "mkdir" /\ storage_file_dir(Root, key[p]) \in dirs /\ NoFault

\* The read of p's step finds a refcount record that ends before 4 bytes.
RecordEndsEarly(p) ==
    pc[p] = "g_read" /\ Len(inode[fh[p]]) < 4 /\ NoFault

\* The filesystem call of p's step fails: the environment fails it, or it
\* opens, reads or removes a file that is not there, makes a directory that is
\* there, or reads a record that ends early. A probe (fs::metadata) that finds
\* no file has answered, not failed.
CallFails(p) ==
    /\ Moved(p)
    /\ pc[p] # "idle"
    /\ \/ Faulted
       \/ pc[p] = "hash" /\ op[p].kind = "store_file" /\ ~SrcExists(op[p].path)
       \/ DirAlreadyExists(p)
       \/ pc[p] = "g_open" /\ ~Exists(storage_refcount_path(Root, key[p]))
       \/ RecordEndsEarly(p)
       \/ pc[p] = "r_rm" /\ ~Exists(storage_refcount_path(Root, key[p]))
       \/ pc[p] = "d_rm" /\ ~Exists(storage_file_path(Root, key[p]))
       \/ pc[p] = "t_open" /\ ~Exists(storage_file_path(Root, key[p]))

IsRetrieve(call) == call.kind \in {"retrieve_data", "retrieve_file"}

\* C14 as stated: across store, retrieve_data, retrieve_file and delete, every
\* failing filesystem call but a shard directory that exists already and a
\* refcount record that ends early makes the operation return an error.
C14_AsStated ==
    [][\A p \in Procs :
          (CallFails(p) /\ ~DirAlreadyExists(p) /\ ~RecordEndsEarly(p))
             => (Returns(p) /\ res'[p].out = "err")]_vars

\* C14, amended. In store and delete the only failing filesystem calls that do
\* not make the operation return an error are the creation of a shard directory
\* that exists already (the store goes on to the probe) and the read of a
\* refcount record that ends before 4 bytes (read as 0); every other failing
\* call makes them return an error in that step, and they return an error for
\* no other reason. retrieve_data and retrieve_file return no error: every
\* failing filesystem call of theirs makes them answer None.
C14_FailureStep ==
    \A p \in Procs :
        /\ (CallFails(p) /\ ~IsRetrieve(op[p])
               /\ ~DirAlreadyExists(p) /\ ~RecordEndsEarly(p))
              => (Returns(p) /\ res'[p].out = "err")
        /\ (Moved(p) /\ DirAlreadyExists(p))
              => (pc'[p] = "probe" /\ dirs' = dirs)
        /\ (Moved(p) /\ RecordEndsEarly(p))
              => IF IsStore(op[p])
                 THEN pc'[p] = "r_open" /\ rcnt'[p] = U32(1)
                 ELSE Returns(p) /\ res'[p].out = "ok"
        /\ (Returns(p) /\ res'[p].out = "err")
              => (CallFails(p) /\ ~IsRetrieve(op[p])
                    /\ ~DirAlreadyExists(p) /\ ~RecordEndsEarly(p))
        /\ (CallFails(p) /\ IsRetrieve(op[p]))
              => (Returns(p) /\ res'[p].out = "none")

C14_ToleratedFailures == [][C14_FailureStep]_vars

\* C14 witness: a retrieve_data of a key whose content file is there answered
\* None, because the environment failed one of its filesystem calls.
C14_Witness ==
    /\ Quiet /\ nfaults = 1
    /\ res["p1"].call.kind = "retrieve_data"
    /\ res["p1"].out = "none"
    /\ HasContent(res["p1"].call.key)
    /\ BytesAt(storage_file_path(Root, res["p1"].call.key))
         = ContentOf(res["p1"].call.key)
    /\ PersistedRefcount(res["p1"].call.key) = 1

\* The refcount file of k is there and holds a complete record.
HasRecord(k) ==
    /\ Exists(storage_refcount_path(Root, k))
    /\ Len(BytesAt(storage_refcount_path(Root, k))) >= 4

\* The record get_refcount would read for k, as a u32.
PersistedU32(k) ==
    IF Exists(storage_refcount_path(Root, k))
    THEN ReadRefcount(BytesAt(storage_refcount_path(Root, k)))
    ELSE U32(0)

\* c + 1 without wrapping, in 16-bit halves: the high half of 2^32 is 2^16.
PlusOne(c) == IF c[2] + 1 < Half THEN <<c[1], c[2] + 1>> ELSE <<c[1] + 1, 0>>

\* a < b as numbers
U32Less(a, b) == a[1] < b[1] \/ (a[1] = b[1] /\ a[2] < b[2])

\* C15 as stated. Increment over the whole record range: whatever refcount c the
\* record of a key holds, up to 2^32 - 1, a store of the key that returns success
\* leaves the refcount file present with c + 1 persisted, so never a lower
\* count. Stated of the first call on a store directory whose record holds c.
C15_AsStated ==
    [][\A p \in Procs :
          (/\ calls = 1
           /\ IsStore(op[p])
           /\ key[p] = SeedKey
           /\ Returns(p)
           /\ res'[p].out = "ok")
             => /\ HasRecord(SeedKey)'
                /\ PersistedU32(SeedKey)' = PlusOne(seed)
                /\ U32Less(seed, PersistedU32(SeedKey)')]_vars

\* C15 witness: the first call on a store directory whose record held 2^32 - 1
\* was a store of that key; it returned the key, and the refcount file is gone.
C15_Witness ==
    /\ seed = MaxU32
    /\ Quiet /\ calls = 1 /\ FaultFree
    /\ IsStore(res["p1"].call)
    /\ res["p1"].out = "ok"
    /\ res["p1"].key = SeedKey
    /\ HasContent(SeedKey)
    /\ ~Exists(storage_refcount_path(Root, SeedKey))
    /\ PersistedU32(SeedKey) = U32(0)

\* C15 below the top of the range: the same with 2^32 - 1 left out.
C15_BelowMax ==
    [][\A p \in Procs :
          (/\ calls = 1
           /\ seed # MaxU32
           /\ IsStore(op[p])
           /\ key[p] = SeedKey
           /\ Returns(p)
           /\ res'[p].out = "ok")
             => /\ HasRecord(SeedKey)'
                /\ PersistedU32(SeedKey)' = PlusOne(seed)
                /\ U32Less(seed, PersistedU32(SeedKey)')]_vars

\* Two delete calls of SeedKey that overlapped are the only calls so far, both
\* have returned, and the environment failed no filesystem call.
TwoDeletes ==
    /\ Quiet /\ calls = 2 /\ raced /\ FaultFree
    /\ \A p \in Procs : res[p].call = Call("delete", <<>>, "", SeedKey)

\* C16 as stated. Concurrent deletes succeed on a healthy filesystem: whatever
\* refcount the key starts with, 1 included, two overlapping delete calls of the
\* key, with no filesystem call failed from outside, both return success.
C16_AsStated ==
    TwoDeletes => \A p \in Procs : res[p].out = "ok"

\* C16, amended. Two overlapping delete calls of a key, with no filesystem call
\* failed from outside, both return success when the key starts at refcount 0 or
\* at 2 or more. When it starts at 1, at least one returns success; the other
\* returns success or an error, and after an error the content file and the
\* refcount file are both removed.
C16_ConcurrentDeletes ==
    TwoDeletes
       => /\ seed # U32(1) => \A p \in Procs : res[p].out = "ok"
          /\ \E p \in Procs : res[p].out = "ok"
          /\ \A p \in Procs : res[p].out \in {"ok", "err"}
          /\ (\E p \in Procs : res[p].out = "err")
                => /\ ~HasContent(SeedKey)
                   /\ ~Exists(storage_refcount_path(Root, SeedKey))

\* C16 witness: two overlapping deletes of a key at refcount 1: one returned
\* success, the other an error; the content file and the refcount file are gone.
C16_Witness ==
    /\ TwoDeletes
    /\ seed = U32(1)
    /\ res["p1"].out = "ok"
    /\ res["p2"].out = "err"
    /\ ~HasContent(SeedKey)
    /\ ~Exists(storage_refcount_path(Root, SeedKey))

\* c - n with floor 0
RECURSIVE MinusFloor(_, _)
MinusFloor(c, n) ==
    IF n = 0 \/ IsZero(c) THEN c ELSE MinusFloor(Decremented(c), n - 1)

\* Every call so far is a delete of SeedKey, and the environment failed no
\* filesystem call.
OnlyDeletes == dels[SeedKey] = calls /\ FaultFree

\* Deletes never over-decrement: with r the refcount at the start and d the
\* deletes begun, the persisted refcount is at least max(0, r - d) once they have
\* returned, and the content file is there while r - d > 0.
C17_NoOverDecrement ==
    OnlyDeletes
       => /\ Quiet => ~U32Less(PersistedU32(SeedKey), MinusFloor(seed, dels[SeedKey]))
          /\ ~IsZero(MinusFloor(seed, dels[SeedKey])) => HasContent(SeedKey)

\* The content file is removed only while the persisted refcount is 0.
C17_RemovedAtZero ==
    (OnlyDeletes /\ HasContent(SeedKey) /\ ~HasContent(SeedKey)')
       => PersistedU32(SeedKey) = U32(0)

\* C17 as stated. Concurrent deletes never over-decrement: d overlapping deletes
\* of a key that starts at refcount r, with no store, leave a persisted refcount
\* of at least max(0, r - d); the content file is removed only if the persisted
\* refcount at that moment is 0; and the content file is not removed while
\* r - d > 0.
C17_AsStated == []C17_NoOverDecrement /\ [][C17_RemovedAtZero]_vars

\* C17, amended. Concurrent deletes never over-decrement: d overlapping deletes
\* of a key that starts at refcount r, with no store, leave a persisted refcount
\* of at least max(0, r - d), and the content file is not removed while
\* r - d > 0; the content file is removed only by a delete that decremented the
\* count it read to 0 and has removed the refcount file itself, in the step
\* that follows that removal (the persisted refcount at that moment is 0 unless
\* another delete has written its own count back meanwhile).
C17_RemovedByZeroing ==
    (OnlyDeletes /\ HasContent(SeedKey) /\ ~HasContent(SeedKey)')
       => \E p \in Procs :
            /\ pc[p] = "d_rm" /\ Returns(p) /\ res'[p].out = "ok"
            /\ IsZero(rcnt[p])

C17_EntersRemovalAtZero ==
    \A p \in Procs :
        (OnlyDeletes /\ pc[p] # "d_rm" /\ pc'[p] = "d_rm")
           => /\ pc[p] = "r_rm"
              /\ IsZero(rcnt[p])
              /\ Exists(storage_refcount_path(Root, SeedKey))
              /\ PersistedU32(SeedKey)' = U32(0)

C17_Bound ==
    /\ []C17_NoOverDecrement
    /\ [][C17_RemovedByZeroing /\ C17_EntersRemovalAtZero]_vars

\* C17 witness: three deletes of a key that started at refcount 2, no store:
\* all have returned success, the content file is removed, and the refcount
\* file holds the count 1.
C17_Witness ==
    /\ seed = U32(2)
    /\ OnlyDeletes /\ Quiet /\ calls = 3
    /\ res["p1"].out = "ok" /\ res["p2"].out = "ok"
    /\ ~HasContent(SeedKey)
    /\ PersistedU32(SeedKey) = U32(1)

\* Well-formed keys, 56 lowercase hex characters each: two in one shard, two
\* that differ in the shard alone, two that differ in the last character alone,
\* and the keys of the store made up to 56 characters.
WellFormedKeys ==
    {Hex56(<<"a", "b">>), Hex56(<<"a", "b", "1">>), Hex56(<<"a", "c">>),
     Hex56(<<"0", "0">>), [i \in 1 .. 56 |-> IF i = 56 THEN "f" ELSE "0"],
     [i \in 1 .. 56 |-> "f"]}
    \cup {Hex56(k) : k \in Keys}

IsHex(ch) == \E i \in 1 .. 16 : HexDigits[i] = ch

\* The key of a call: the hash of what a store persists, the key handed to a
\* retrieve or a delete.
KeyOfCall(call) == IF IsStore(call) THEN HashData(Input(call)) ELSE call.key

\* The paths of two different keys are different, and no content path is a
\* refcount path.
PathsApart(ks) ==
    \A k1, k2 \in ks :
        /\ storage_file_path(Root, k1) # storage_refcount_path(Root, k2)
        /\ k1 # k2
             => /\ storage_file_path(Root, k1) # storage_file_path(Root, k2)
                /\ storage_refcount_path(Root, k1) # storage_refcount_path(Root, k2)

\* (facts of the path functions alone, looked at in the initial state)
C18_Paths ==
    calls = 0 =>
    /\ \A k \in WellFormedKeys : Len(k) = 56 /\ \A i \in 1 .. 56 : IsHex(k[i])
    /\ Cardinality(WellFormedKeys) = 6 + Cardinality(Keys)
    /\ PathsApart(WellFormedKeys)
    /\ PathsApart(Keys)
    /\ Cardinality(Keys) = Cardinality(Contents)
    /\ Cardinality(ContentPaths) = Cardinality(Keys)
    /\ Cardinality(RefcountPaths) = Cardinality(Keys)
    /\ ContentPaths \cap RefcountPaths = {}

C18_OtherKeyUntouched ==
    \A p \in Procs, k2 \in Keys :
        (Moved(p) /\ pc[p] # "idle" /\ KeyOfCall(op[p]) # k2)
           => /\ SameFile(storage_file_path(Root, k2))
              /\ SameFile(storage_refcount_path(Root, k2))
              /\ HasContent(k2)' = HasContent(k2)
              /\ PersistedRefcount(k2)' = PersistedRefcount(k2)

\* C18. Per-key isolation: the content path and the refcount path of two
\* different well-formed keys under one root are all different, and no content
\* path is a refcount path; so no step of a store, a retrieve or a delete of a
\* key, in any sequence or interleaving, changes the content file or the
\* refcount of another key.
C18_Isolation == []C18_Paths /\ [][C18_OtherKeyUntouched]_vars

\* C18 witness: one key was stored once; then a store and a delete of another
\* key in the same shard directory overlapped and a retrieve of it found
\* nothing: the first key still has its bytes and refcount 1.
C18_Witness ==
    /\ raced /\ FaultFree /\ Quiet /\ calls = 4
    /\ \E k1, k2 \in Keys :
         /\ k1 # k2
         /\ storage_file_dir(Root, k1) = storage_file_dir(Root, k2)
         /\ stores[k2] = 1 /\ dels[k2] = 0
         /\ HasContent(k2)
         /\ BytesAt(storage_file_path(Root, k2)) = ContentOf(k2)
         /\ PersistedRefcount(k2) = 1
         /\ stores[k1] = 1 /\ dels[k1] = 1
         /\ res["p1"].call.kind = "retrieve_data"
         /\ res["p1"].call.key = k1
         /\ res["p1"].out = "none"

====
